---- MODULE Spec2Model ----
(***************************************************************************)
(* next-dev-eager: route discovery (findStaticRoutes) and the sequential   *)
(* warm-up loop (main) of src/main.go.                                     *)
(*                                                                         *)
(* Strings are sequences of one-character strings, so that HasPrefix,     *)
(* HasSuffix, Split and Join are computed the way the Go code computes    *)
(* them.  A directory is the sequence of its path segments below the root. *)
(***************************************************************************)
EXTENDS Naturals, Sequences, FiniteSets

VARIABLES
    pc,          \* position of main
    appKind,     \* what ./app is on disk: "missing", "dir" or "file"
    srcAppKind,  \* what ./src/app is on disk
    appPath,     \* result of findAppDirectory ("" before it ran)
    walked,      \* entries WalkDir has handed to the callback so far
    visited,     \* directories of the page files the callback processed
    emitted,     \* [dir, route] for every insertion into routeSet
    routeSet,    \* findStaticRoutes' routeSet (keys of the map)
    routes,      \* main's routes slice
    idx,         \* position of the range loop in routes (1-based)
    requests,    \* URLs handed to client.Get, in order
    inflight,    \* client.Get calls that have not returned
    sleeps,      \* completed time.Sleep calls
    failures,    \* client.Get calls that returned an error
    stdout,      \* last line main printed on standard output
    fatalMsg     \* which log.Fatalf ended the run ("none" if none did)

vars == <<pc, appKind, srcAppKind, appPath, walked, visited, emitted, routeSet,
          routes, idx, requests, inflight, sleeps, failures, stdout, fatalMsg>>

\* ------------------------------------------------------------------ bounds

\* Longest directory path (in segments) handed to a single callback call.
MaxDepth == 3

\* Most entries one directory walk hands to the callback.
MaxEntries == 2

\* ----------------------------------------------------------------- strings

HasPrefix(s, prefix) ==
    Len(s) >= Len(prefix) /\ SubSeq(s, 1, Len(prefix)) = prefix

HasSuffix(s, suffix) ==
    Len(s) >= Len(suffix) /\ SubSeq(s, Len(s) - Len(suffix) + 1, Len(s)) = suffix

\* strings.Join(elems, sep)
RECURSIVE Join(_, _)
Join(elems, sep) ==
    IF elems = <<>> THEN <<>>
    ELSE IF Len(elems) = 1 THEN Head(elems)
    ELSE Head(elems) \o sep \o Join(Tail(elems), sep)

\* strings.Split(s, sep) for a one-character separator: the substrings
\* between the separators, empty ones included.
RECURSIVE Split(_, _)
Split(s, sep) ==
    IF \A i \in 1..Len(s) : s[i] # sep THEN <<s>>
    ELSE LET i == CHOOSE k \in 1..Len(s) :
                     s[k] = sep /\ \A j \in 1..(k - 1) : s[j] # sep
         IN  <<SubSeq(s, 1, i - 1)>> \o Split(SubSeq(s, i + 1, Len(s)), sep)

\* All sequences over S of length at most n.
RECURSIVE SeqsUpTo(_, _)
SeqsUpTo(S, n) ==
    IF n = 0 THEN {<<>>}
    ELSE LET shorter == SeqsUpTo(S, n - 1)
         IN  shorter \cup {Append(p, x) : p \in shorter, x \in S}

\* All orders in which the elements of the finite set S can be listed.
Perms(S) ==
    {p \in [1..Cardinality(S) -> S] :
        \A i, j \in 1..Cardinality(S) : i # j => p[i] # p[j]}

\* --------------------------------------------------------------- constants

baseURL ==
    <<"h","t","t","p",":","/","/","l","o","c","a","l","h","o","s","t",
      ":","3","0","0","0">>

possibleAppDirs == <<"app", "src/app">>

\* ------------------------------------------------- the WalkDir callback

\* isPageFile of the callback: a non-directory named page.* with one of the
\* four source extensions.
isPageFile(fileName, isDir) ==
    /\ ~isDir
    /\ HasPrefix(fileName, <<"p","a","g","e",".">>)
    /\ \/ HasSuffix(fileName, <<".","j","s">>)
       \/ HasSuffix(fileName, <<".","j","s","x">>)
       \/ HasSuffix(fileName, <<".","t","s">>)
       \/ HasSuffix(fileName, <<".","t","s","x">>)

\* filepath.Rel(root, filepath.Dir(path)) and filepath.ToSlash for a page file
\* whose directory lies dir below the root: "." for the root itself.
relPath(dir) ==
    IF dir = <<>> THEN <<".">> ELSE Join(dir, <<"/">>)

\* route before the segment loop.
rawRoute(dir) ==
    IF relPath(dir) = <<".">> THEN <<"/">> ELSE <<"/">> \o relPath(dir)

\* Faulty variant of IsPrivate: compares with "_" instead of testing the prefix.
IsPrivateExact(segment) == segment = <<"_">>

\* strings.HasPrefix(segment, "_")
IsPrivate(segment) == HasPrefix(segment, <<"_">>)

\* The route-group test as written: parenthesized and not starting "(...".
IsGroup(segment) ==
    /\ HasPrefix(segment, <<"(">>)
    /\ HasSuffix(segment, <<")">>)
    /\ ~HasPrefix(segment, <<"(",".",".",".">>)

\* The intercepting-route test as written.
IsInterceptor(segment) ==
    \/ segment = <<"(",".",")">>
    \/ segment = <<"(",".",".",")">>
    \/ segment = <<"(",".",".",".",")">>

\* strings.HasPrefix(segment, "@")
IsParallel(segment) == HasPrefix(segment, <<"@">>)

\* Faulty variant of IsDynamic: recognizes catch-all segments "[...x]" only.
IsDynamicCatchAll(segment) ==
    HasPrefix(segment, <<"[",".",".",".">>) /\ HasSuffix(segment, <<"]">>)

\* strings.HasPrefix(segment, "[") && strings.HasSuffix(segment, "]")
IsDynamic(segment) ==
    HasPrefix(segment, <<"[">>) /\ HasSuffix(segment, <<"]">>)

\* The segment loop: either the callback returns nil without a route
\* (skip) or the loop ends with finalSegments.
RECURSIVE segmentLoop(_, _)
segmentLoop(segments, finalSegments) ==
    IF segments = <<>> THEN [skip |-> FALSE, finalSegments |-> finalSegments]
    ELSE LET segment == Head(segments)
             rest    == Tail(segments)
         IN  IF segment = <<>> THEN segmentLoop(rest, finalSegments)
             ELSE IF IsPrivate(segment) THEN [skip |-> TRUE, finalSegments |-> <<>>]
             ELSE IF IsGroup(segment) THEN segmentLoop(rest, finalSegments)
             ELSE IF IsInterceptor(segment) THEN [skip |-> TRUE, finalSegments |-> <<>>]
             ELSE IF IsParallel(segment) THEN [skip |-> TRUE, finalSegments |-> <<>>]
             ELSE IF IsDynamic(segment) THEN [skip |-> TRUE, finalSegments |-> <<>>]
             ELSE segmentLoop(rest, Append(finalSegments, segment))

\* "/" + strings.Join(finalSegments, "/"), with "//" turned into "/".
finalRoute(finalSegments) ==
    LET joined == <<"/">> \o Join(finalSegments, <<"/">>)
    IN  IF joined = <<"/", "/">> THEN <<"/">> ELSE joined

\* What the callback does for a page file in directory dir.
pageResult(dir) == segmentLoop(Split(rawRoute(dir), "/"), <<>>)


\* ------------------------------------------------------------ the inputs

Seg_a     == <<"a">>
Seg_b     == <<"b">>
Seg_c     == <<"c">>
Seg_priv  == <<"_","p">>
Seg_group == <<"(","g",")">>
Seg_dot1  == <<"(",".",")">>
Seg_dot2  == <<"(",".",".",")">>
Seg_dot3  == <<"(",".",".",".",")">>
Seg_dot3x == <<"(",".",".",".","x",")">>
Seg_slot  == <<"@","s">>
Seg_dyn   == <<"[","i","d","]">>

\* Directory names a single callback call is tried on: every kind of
\* segment the callback distinguishes, two plain names to see order.
SegPool ==
    {Seg_a, Seg_b, Seg_priv, Seg_group, Seg_dot1, Seg_dot2, Seg_dot3,
     Seg_dot3x, Seg_slot, Seg_dyn}

Paths == SeqsUpTo(SegPool, MaxDepth)

Name_page_tsx   == <<"p","a","g","e",".","t","s","x">>
Name_page_jsx   == <<"p","a","g","e",".","j","s","x">>
Name_page_ts    == <<"p","a","g","e",".","t","s">>
Name_page_js    == <<"p","a","g","e",".","j","s">>
Name_page_css   == <<"p","a","g","e",".","c","s","s">>
Name_layout_tsx == <<"l","a","y","o","u","t",".","t","s","x">>
Name_app        == <<"a","p","p">>

FileNames ==
    {Name_page_tsx, Name_page_jsx, Name_page_ts, Name_page_js,
     Name_page_css, Name_layout_tsx}

\* The trees of whole runs: the plain directories a, b and a/b/c, and each
\* of them with one non-plain directory put in at any depth.
BaseDirs == {<<>>, <<Seg_a>>, <<Seg_b>>, <<Seg_a, Seg_b, Seg_c>>}

WalkSpecial == {Seg_group, Seg_dyn, Seg_slot, Seg_dot3x}

InsertAt(p, i, s) == SubSeq(p, 1, i) \o <<s>> \o SubSeq(p, i + 1, Len(p))

WalkDirs ==
    BaseDirs \cup
    UNION {{InsertAt(p, i, s) : i \in 0..Len(p), s \in WalkSpecial} : p \in BaseDirs}

\* Entries of a walk: a page file in any of the directories, or an entry
\* that is no page file (where it lies plays no part).
WalkEntries ==
    {[dir |-> d, name |-> Name_page_tsx, isDir |-> FALSE] : d \in WalkDirs}
    \cup {[dir |-> <<>>, name |-> Name_page_js, isDir |-> FALSE],
          [dir |-> <<>>, name |-> Name_layout_tsx, isDir |-> FALSE],
          [dir |-> <<>>, name |-> Name_page_tsx, isDir |-> TRUE]}

Kinds == {"missing", "dir", "file"}

Outcomes == {"ok", "neterr", "timeout"}

\* ------------------------------------------------------------------- Init

Init ==
    /\ pc = "findApp"
    /\ appKind \in Kinds
    /\ srcAppKind \in Kinds
    /\ appPath = ""
    /\ walked = 0
    /\ visited = {}
    /\ emitted = {}
    /\ routeSet = {}
    /\ routes = <<>>
    /\ idx = 0
    /\ requests = <<>>
    /\ inflight = 0
    /\ sleeps = 0
    /\ failures = 0
    /\ stdout = ""
    /\ fatalMsg = "none"

\* ------------------------------------------------------ findAppDirectory

\* os.Stat(dir) returns no error: the name exists, whatever it is.
statOk(kind) == kind # "missing"

kindOf(dir) == IF dir = "app" THEN appKind ELSE srcAppKind

\* The first of possibleAppDirs that os.Stat accepts, "" if none.
foundAppDir ==
    IF statOk(kindOf(possibleAppDirs[1])) THEN possibleAppDirs[1]
    ELSE IF statOk(kindOf(possibleAppDirs[2])) THEN possibleAppDirs[2]
    ELSE ""

\* main calls findAppDirectory and prints "Discovering routes...", or
\* findAppDirectory ends the process with log.Fatalf.
findAppDirectory ==
    /\ pc = "findApp"
    /\ IF foundAppDir = ""
       THEN /\ pc' = "fatal"
            /\ fatalMsg' = "noAppDir"
            /\ UNCHANGED <<appPath, stdout>>
       ELSE /\ pc' = "walkRoot"
            /\ appPath' = foundAppDir
            /\ stdout' = "Discovering routes..."
            /\ UNCHANGED fatalMsg
    /\ UNCHANGED <<appKind, srcAppKind, walked, visited, emitted, routeSet,
                   routes, idx, requests, inflight, sleeps, failures>>

\* ------------------------------------------------------ findStaticRoutes

\* The callback with err == nil on one entry.
walkFn(dir, fileName, isDir) ==
    IF ~isPageFile(fileName, isDir)
    THEN UNCHANGED <<visited, emitted, routeSet>>
    ELSE LET r == pageResult(dir)
         IN  /\ visited' = visited \cup {dir}
             /\ IF r.skip
                THEN UNCHANGED <<emitted, routeSet>>
                ELSE /\ routeSet' = routeSet \cup {finalRoute(r.finalSegments)}
                     /\ emitted' = emitted \cup
                            {[dir |-> dir, route |-> finalRoute(r.finalSegments)]}

\* WalkDir hands the root itself to the callback first: a directory, or,
\* when the name os.Stat accepted is a file, that file.
VisitRoot ==
    /\ pc = "walkRoot"
    /\ walkFn(<<>>, Name_app, kindOf(appPath) = "dir")
    /\ pc' = "walk"
    /\ UNCHANGED <<appKind, srcAppKind, appPath, walked, routes, idx, requests,
                   inflight, sleeps, failures, stdout, fatalMsg>>

\* WalkDir hands one more entry below the root to the callback.
VisitEntry(dir, fileName, isDir) ==
    /\ pc = "walk"
    /\ kindOf(appPath) = "dir"
    /\ walkFn(dir, fileName, isDir)
    /\ walked' = walked + 1
    /\ UNCHANGED <<pc, appKind, srcAppKind, appPath, routes, idx, requests,
                   inflight, sleeps, failures, stdout, fatalMsg>>

Visit ==
    /\ walked < MaxEntries
    /\ \E e \in WalkEntries : VisitEntry(e.dir, e.name, e.isDir)

\* WalkDir reports an error for an entry (the root included): the callback
\* returns it, findStaticRoutes returns (nil, err), main ends in log.Fatalf.
WalkError ==
    /\ pc \in {"walkRoot", "walk"}
    /\ pc' = "fatal"
    /\ fatalMsg' = "discoverErr"
    /\ routes' = <<>>
    /\ routeSet' = {}
    /\ visited' = {}
    /\ emitted' = {}
    /\ walked' = 0
    /\ UNCHANGED <<appKind, srcAppKind, appPath, idx, requests, inflight,
                   sleeps, failures, stdout>>

\* The walk ends without error: findStaticRoutes returns the keys of
\* routeSet in the order the map iteration yields them.  visited, emitted,
\* routeSet and walked describe the call and end with it.
WalkDone ==
    /\ pc = "walk"
    /\ \E order \in Perms(routeSet) : routes' = order
    /\ pc' = "returned"
    /\ routeSet' = {}
    /\ visited' = {}
    /\ emitted' = {}
    /\ walked' = 0
    /\ UNCHANGED <<appKind, srcAppKind, appPath, idx, requests, inflight,
                   sleeps, failures, stdout, fatalMsg>>

\* ------------------------------------------------------------------ main

\* Faulty variant of NoRoutes: no early return, main goes on to the loop.
NoRoutesFallThrough ==
    /\ pc = "returned"
    /\ Len(routes) = 0
    /\ stdout' = "Found static routes. Warming them up..."
    /\ idx' = 1
    /\ pc' = "loop"
    /\ UNCHANGED <<appKind, srcAppKind, appPath, walked, visited, emitted,
                   routeSet, routes, requests, inflight, sleeps, failures,
                   fatalMsg>>

\* len(routes) == 0: print the message and return.
NoRoutes ==
    /\ pc = "returned"
    /\ Len(routes) = 0
    /\ stdout' = "No static routes found to warm up."
    /\ pc' = "done"
    /\ UNCHANGED <<appKind, srcAppKind, appPath, walked, visited, emitted,
                   routeSet, routes, idx, requests, inflight, sleeps, failures,
                   fatalMsg>>

\* Faulty variant of less: the comparison turned round.
lessDescending(a, b) == Len(a) > Len(b)

\* The less function handed to sort.Slice.
less(a, b) == Len(a) < Len(b)

\* What sort.Slice (not stable) may leave: any order of the same elements
\* in which no later element is less than an earlier one.
sortSlice(s) ==
    {p \in Perms({s[i] : i \in 1..Len(s)}) :
        \A i, j \in 1..Len(p) : i < j => ~less(p[j], p[i])}

\* sort.Slice and the "Found %d static routes" line; the loop starts.
SortRoutes ==
    /\ pc = "returned"
    /\ Len(routes) # 0
    /\ routes' \in sortSlice(routes)
    /\ stdout' = "Found static routes. Warming them up..."
    /\ idx' = 1
    /\ pc' = "loop"
    /\ UNCHANGED <<appKind, srcAppKind, appPath, walked, visited, emitted,
                   routeSet, requests, inflight, sleeps, failures, fatalMsg>>

\* Top of the loop body: print "GET url ... " and call client.Get.
IssueGet ==
    /\ pc = "loop"
    /\ idx <= Len(routes)
    /\ requests' = Append(requests, baseURL \o routes[idx])
    /\ inflight' = inflight + 1
    /\ stdout' = "GET"
    /\ pc' = "get"
    /\ UNCHANGED <<appKind, srcAppKind, appPath, walked, visited, emitted,
                   routeSet, routes, idx, sleeps, failures, fatalMsg>>

\* Faulty variant of pcAfterError: continue without the time.Sleep.
pcAfterErrorSkipSleep == "next"

\* Faulty variant of pcAfterError: the error ends main (return).
pcAfterErrorStop == "done"

\* Where the error branch goes after printing the error: to its
\* time.Sleep, and from there on with the loop (continue).
pcAfterError == "sleep"

\* client.Get returns: an error (network error or timeout) or a response.
GetReturns ==
    /\ pc = "get"
    /\ inflight' = inflight - 1
    /\ \E outcome \in Outcomes :
          IF outcome = "ok"
          THEN /\ stdout' = "[status] in duration"
               /\ pc' = "sleep"
               /\ UNCHANGED failures
          ELSE /\ stdout' = "Error"
               /\ pc' = pcAfterError
               /\ failures' = failures + 1
    /\ UNCHANGED <<appKind, srcAppKind, appPath, walked, visited, emitted,
                   routeSet, routes, idx, requests, sleeps, fatalMsg>>

\* time.Sleep(1 * time.Second) returns, on either branch; the range loop
\* moves on (continue after an error, the end of the body otherwise).
Sleep ==
    /\ pc = "sleep"
    /\ sleeps' = sleeps + 1
    /\ pc' = "next"
    /\ UNCHANGED <<appKind, srcAppKind, appPath, walked, visited, emitted,
                   routeSet, routes, idx, requests, inflight, failures, stdout,
                   fatalMsg>>

\* The range loop advances to the next route.
NextRoute ==
    /\ pc = "next"
    /\ idx' = idx + 1
    /\ pc' = "loop"
    /\ UNCHANGED <<appKind, srcAppKind, appPath, walked, visited, emitted,
                   routeSet, routes, requests, inflight, sleeps, failures,
                   stdout, fatalMsg>>

\* The range is exhausted: "Warm-up complete." and main returns.
Complete ==
    /\ pc = "loop"
    /\ idx > Len(routes)
    /\ stdout' = "Warm-up complete."
    /\ pc' = "done"
    /\ UNCHANGED <<appKind, srcAppKind, appPath, walked, visited, emitted,
                   routeSet, routes, idx, requests, inflight, sleeps, failures,
                   fatalMsg>>

Next ==
    \/ findAppDirectory
    \/ VisitRoot
    \/ Visit
    \/ WalkError
    \/ WalkDone
    \/ NoRoutes
    \/ SortRoutes
    \/ IssueGet
    \/ GetReturns
    \/ Sleep
    \/ NextRoute
    \/ Complete

Spec == Init /\ [][Next]_vars

\* main is one sequential thread: every step it can take it takes.
FairSpec == Spec /\ WF_vars(Next)

\* ------------------------------------- one callback call on any directory

InitPath ==
    /\ pc = "walk"
    /\ appKind = "dir"
    /\ srcAppKind = "missing"
    /\ appPath = "app"
    /\ walked = 0
    /\ visited = {}
    /\ emitted = {}
    /\ routeSet = {}
    /\ routes = <<>>
    /\ idx = 0
    /\ requests = <<>>
    /\ inflight = 0
    /\ sleeps = 0
    /\ failures = 0
    /\ stdout = "Discovering routes..."
    /\ fatalMsg = "none"

VisitAny ==
    /\ walked = 0
    /\ \E dir \in Paths, fileName \in FileNames, isDir \in BOOLEAN :
          VisitEntry(dir, fileName, isDir)

PathSpec == InitPath /\ [][VisitAny]_vars


\* ------------------------------------------------------------ properties

\* The segment kinds as the specification words them.
InterceptorMarkers == {Seg_dot1, Seg_dot2, Seg_dot3}

StartsWith(segment, ch) == Len(segment) >= 1 /\ segment[1] = ch

EndsWith(segment, ch) == Len(segment) >= 1 /\ segment[Len(segment)] = ch

RouteGroup(segment) ==
    /\ StartsWith(segment, "(")
    /\ EndsWith(segment, ")")
    /\ segment \notin InterceptorMarkers

DynamicOrSlot(segment) ==
    \/ StartsWith(segment, "[") /\ EndsWith(segment, "]")
    \/ StartsWith(segment, "@")

SegmentsOf(dir) == {dir[i] : i \in 1..Len(dir)}

\* The segments of dir that are no route groups, in their order.
RECURSIVE WithoutGroups(_)
WithoutGroups(dir) ==
    IF dir = <<>> THEN <<>>
    ELSE IF RouteGroup(Head(dir)) THEN WithoutGroups(Tail(dir))
    ELSE <<Head(dir)>> \o WithoutGroups(Tail(dir))

\* The segments of a route string: what lies between its slashes.
RECURSIVE NonEmpty(_)
NonEmpty(ss) ==
    IF ss = <<>> THEN <<>>
    ELSE IF Head(ss) = <<>> THEN NonEmpty(Tail(ss))
    ELSE <<Head(ss)>> \o NonEmpty(Tail(ss))

RouteSegments(route) == NonEmpty(Split(route, "/"))

\* Leading slash, no empty segment, no trailing slash except for "/".
Canonical(route) ==
    /\ Len(route) >= 1
    /\ route[1] = "/"
    /\ \A i \in 1..(Len(route) - 1) : ~(route[i] = "/" /\ route[i + 1] = "/")
    /\ (route[Len(route)] = "/" => route = <<"/">>)

RouteOfURL(url) == SubSeq(url, Len(baseURL) + 1, Len(url))

NoRoutesMsg == "No static routes found to warm up."

CompleteMsg == "Warm-up complete."

\* C1: a page file whose directory path holds an interceptor marker
\* "(.)", "(..)" or "(...)" as a segment, at any position, contributes no
\* route: no route was ever inserted for such a directory.
C1_InterceptorNeverEmits ==
    \A e \in emitted : SegmentsOf(e.dir) \cap InterceptorMarkers = {}

\* C2: a page file whose directory path holds a segment beginning with "_",
\* at any position and whatever the other segments are, contributes no
\* route: every route in the set comes from a directory without such a
\* segment.
C2_PrivateNeverEmits ==
    /\ routeSet = {e.route : e \in emitted}
    /\ \A e \in emitted : \A seg \in SegmentsOf(e.dir) : ~StartsWith(seg, "_")

\* C2 reached: the page file below (g)/a/_p was processed, after a group and
\* a plain segment, and the route set is empty.
C2_Witness ==
    /\ visited = {<<Seg_group, Seg_a, Seg_priv>>}
    /\ routeSet = {}

\* C3: in every emitted route no route-group segment (parenthesized, no
\* interceptor marker) appears, and the route is exactly the other segments
\* of the path in their order.  Stated for the paths that hold no
\* interceptor marker, the paths C1 leaves to emit a route.
C3_GroupsDroppedOrderKept ==
    \A e \in emitted :
        SegmentsOf(e.dir) \cap InterceptorMarkers = {} =>
            /\ \A seg \in SegmentsOf(RouteSegments(e.route)) : ~RouteGroup(seg)
            /\ RouteSegments(e.route) = WithoutGroups(e.dir)

\* C4: a page file whose directory path holds a dynamic segment or a
\* parallel-slot segment contributes no route, and the page files of its
\* ancestors keep theirs: every route in the set comes from a directory
\* without such a segment, and the tree with page files in a/b/c and
\* a/b/c/[id] has the route set {/a/b/c}.
C4_DynamicAndSlotSkipped ==
    /\ routeSet = {e.route : e \in emitted}
    /\ \A e \in emitted : \A seg \in SegmentsOf(e.dir) : ~DynamicOrSlot(seg)
    /\ \A d \in visited :
          (\A seg \in SegmentsOf(d) : seg \in {Seg_a, Seg_b, Seg_c})
              => \E e \in emitted : e.dir = d
    /\ visited = {<<Seg_a, Seg_b, Seg_c>>, <<Seg_a, Seg_b, Seg_c, Seg_dyn>>}
          => routeSet = {<<"/","a","/","b","/","c">>}

\* C4 reached: both page files of the example tree were processed.
C4_Witness ==
    /\ pc = "walk"
    /\ visited = {<<Seg_a, Seg_b, Seg_c>>, <<Seg_a, Seg_b, Seg_c, Seg_dyn>>}
    /\ routeSet = {<<"/","a","/","b","/","c">>}

\* The GETs issued so far are those of the first n routes, one each.
IssuedExactly(n) ==
    /\ Len(requests) = n
    /\ \A i \in 1..n : requests[i] = baseURL \o routes[i]
    /\ \A i, j \in 1..n : i # j => requests[i] # requests[j]

\* C5: with a non-empty route list and any outcomes of the requests, the
\* loop issues exactly one GET per route, none twice and none skipped, a
\* failed request does not end the loop, and the run reaches the completion
\* summary after the last route.
C5_EveryRouteOnceThenSummary ==
    /\ [](pc \in {"get", "sleep", "next"} => IssuedExactly(idx))
    /\ [](pc = "loop" => IssuedExactly(idx - 1))
    /\ []((pc = "done" /\ Len(routes) > 0)
            => (IssuedExactly(Len(routes)) /\ stdout = CompleteMsg))
    /\ ((pc = "loop") ~> (pc = "done" /\ stdout = CompleteMsg
                            /\ IssuedExactly(Len(routes))))

\* C5 reached: the run completed with at least two routes, one request
\* failed and another succeeded.
C5_Witness ==
    /\ pc = "done"
    /\ stdout = CompleteMsg
    /\ Len(requests) >= 2
    /\ failures >= 1
    /\ failures < Len(requests)

\* C6: the GETs are issued in non-decreasing order of route length.
C6_AscendingLength ==
    \A i, j \in 1..Len(requests) :
        i < j => Len(RouteOfURL(requests[i])) <= Len(RouteOfURL(requests[j]))

\* C6 reached: two routes of different lengths were requested.
C6_Witness ==
    /\ Len(requests) = 2
    /\ Len(RouteOfURL(requests[1])) < Len(RouteOfURL(requests[2]))

\* C7: when discovery returns no route, main prints the nothing-to-warm-up
\* message and ends successfully, with no request issued and no sleep.
C7_NothingToWarmUp ==
    (pc \notin {"findApp", "walkRoot", "walk", "fatal"} /\ Len(routes) = 0)
        => /\ requests = <<>>
           /\ inflight = 0
           /\ sleeps = 0
           /\ fatalMsg = "none"
           /\ pc \in {"returned", "done"}
           /\ (pc = "done" => stdout = NoRoutesMsg)

\* C7 reached: main ended after the message, nothing requested.
C7_Witness ==
    /\ pc = "done"
    /\ stdout = NoRoutesMsg
    /\ requests = <<>>
    /\ sleeps = 0

\* C8: if neither app nor src/app is a usable root directory, or the
\* traversal reports an error, the run ends in the fatal state, no route
\* list is returned and no request is issued.
C8_FatalWithoutRootOrOnWalkError ==
    /\ (appKind # "dir" /\ srcAppKind # "dir" /\ pc # "findApp")
          => (pc = "fatal" /\ routes = <<>> /\ requests = <<>>)
    /\ fatalMsg = "discoverErr"
          => (pc = "fatal" /\ routes = <<>> /\ requests = <<>>)

\* C9: every route is canonical and unique; a page file at the root or
\* below group segments only yields "/", and directories that differ by
\* group segments only yield one route.
C9_CanonicalUnique ==
    /\ \A e \in emitted :
          /\ Canonical(e.route)
          /\ (WithoutGroups(e.dir) = <<>> => e.route = <<"/">>)
    /\ \A e1, e2 \in emitted :
          WithoutGroups(e1.dir) = WithoutGroups(e2.dir) => e1.route = e2.route
    /\ \A i \in 1..Len(routes) : Canonical(routes[i])
    /\ \A i, j \in 1..Len(routes) : i # j => routes[i] # routes[j]

\* C10: at most one request is outstanding, exactly one sleep lies between
\* the return of a request and the next request, and no request is retried.
C10_OneAtATimeOneSleepBetween ==
    /\ inflight \in {0, 1}
    /\ (inflight = 1 <=> pc = "get")
    /\ (pc \in {"get", "sleep"} => sleeps + 1 = Len(requests))
    /\ (pc \in {"next", "loop", "done"} => sleeps = Len(requests))
    /\ \A i, j \in 1..Len(requests) : i # j => requests[i] # requests[j]

\* C10 reached: the first request failed, one sleep passed, the second
\* request is outstanding.
C10_Witness ==
    /\ pc = "get"
    /\ Len(requests) = 2
    /\ sleeps = 1
    /\ failures = 1

====
